---- MODULE Spec2Model ----
(***************************************************************************)
(* Kill-chain flow of the stock-research dashboard (src/src/app/page.tsx). *)
(*                                                                         *)
(* State: the Dashboard component's useState cells (data, killChainActive, *)
(* killChainStep, stepResults), the KillChainFlow component's cells        *)
(* (showStep1Fail, memoSaving, memoSaved, memoError), the four             *)
(* useStepAnalysis hooks (analysis, loading, error, one per step), the     *)
(* requests in flight to /api/analyze, /api/memos and /api/stock, and the  *)
(* rows of the memos table.                                                *)
(*                                                                         *)
(* Scheduling.  A click runs its handler, the re-render and the useEffect  *)
(* callbacks of that render in one step (React runs the effects of a       *)
(* render caused by a discrete event before it returns to the browser).    *)
(* A render caused by the continuation of an awaited fetch is committed    *)
(* and painted first; its useEffect callbacks run later, in a task of      *)
(* their own, or at the latest right before the next render.  Such a       *)
(* committed-but-not-yet-run effect is the state pendingEffect.            *)
(***************************************************************************)
EXTENDS Integers, Sequences, FiniteSets, TLC

\* ---------------------------------------------------------------- bounds
\* Failed or incomplete /api/analyze responses, SAVE MEMO clicks, kill-chain
\* runs after the first, other requests to /api/memos and server starts, counted
\* together, in one behaviour.
MaxEvents == 2

\* ------------------------------------------------------------- constants
Steps == 1..4
Tickers == {"KO"}
NoData == "none"
NULL == "null"
NoAnalysis == [step |-> 0, fields |-> {}, run |-> 0, k |-> 0]
\* The notes of an outcome whose analysis lacks the field they are read from.
Undefined == 0
NavInputs == 0..6

VARIABLES
    data,            \* Dashboard: StockData | null (identified by its ticker)
    searchLoading,   \* Dashboard: loading
    killChainActive, \* Dashboard
    killChainStep,   \* Dashboard
    stepResults,     \* Dashboard: StepResult[]
    showStep1Fail,   \* KillChainFlow
    memoSaving,      \* KillChainFlow
    memoSaved,       \* KillChainFlow
    memoError,       \* KillChainFlow
    analysis,        \* useStepAnalysis(n).analysis
    loading,         \* useStepAnalysis(n).loading
    error,           \* useStepAnalysis(n).error
    pendingEffect,   \* useStepAnalysis(n): effect committed with a true guard, not yet run
    inflight,        \* POST /api/analyze requests awaiting their response
    memoInflight,    \* POST /api/memos requests awaiting their response
    searchInflight,  \* GET /api/stock request awaiting its response
    memos,           \* rows of the memos table, oldest first
    supabaseConfigured, \* lib/supabase.ts: supabaseUrl and supabaseAnonKey are usable
    _supabase,       \* lib/supabase.ts: the client, or null
    created,         \* createClient calls since the module was loaded
    run,             \* identity of the mounted KillChainFlow instance
    issued,          \* requests issued so far by hook n of the mounted instance
    failed,          \* hooks of the mounted instance that received a failed response
    events,          \* the events MaxEvents bounds, so far
    request,         \* /api/analyze: the body { step, stockData } of a request
    prompt           \* /api/analyze: the prompt of the generation call made for it

dash == <<data, searchLoading, killChainActive, killChainStep, stepResults>>
flow == <<showStep1Fail, memoSaving, memoSaved, memoError>>
hooks == <<analysis, loading, error, pendingEffect, inflight, issued>>
store == <<memos, supabaseConfigured, _supabase, created>>
prompting == <<request, prompt>>
vars == <<dash, flow, hooks, memoInflight, searchInflight, store, run, failed, events, prompting>>

\* ---------------------------------------------- /api/analyze (route.ts)
\* The fields of the four response shapes.
StepFields ==
    [n \in Steps |->
        CASE n = 1 -> {"characteristics", "summary", "verdict"}
          [] n = 2 -> {"moatType", "moatRating", "evidence", "threats"}
          [] n = 3 -> {"grade", "summary", "concerns", "note"}
          [] n = 4 -> {"verdict", "reasoning", "marginOfSafety", "keyMetric"}]

\* What the text-generation call can yield for the prompt of step n: it
\* throws, or it returns a text.  A text is a content (a JSON object with some
\* fields, a JSON array, the JSON null, prose, nothing) and the place of a
\* code fence (none, one enclosing the whole text, one inside other text).
NotesField == [n \in Steps |-> CASE n = 1 -> "summary" [] n = 2 -> "evidence"
                                  [] n = 3 -> "summary" [] n = 4 -> "reasoning"]

Text(fence, type, fields) ==
    [threw |-> FALSE, fence |-> fence, type |-> type, fields |-> fields]

Generations(n) ==
    { [threw |-> TRUE, fence |-> "none", type |-> "empty", fields |-> {}],
      Text("none", "object", StepFields[n]),
      Text("enclosing", "object", StepFields[n]),
      Text("inside", "object", StepFields[n]),
      Text("none", "object", StepFields[n] \ {NotesField[n]}),
      Text("none", "array", {}),
      Text("enclosing", "null", {}),
      Text("none", "prose", {}),
      Text("none", "empty", {}) }

\* parseJSON: strips a fence at the very start and at the very end of the
\* text, then JSON.parse, which throws on anything that is not JSON.
parseJSON(raw) ==
    IF raw.fence = "inside" \/ raw.type \in {"prose", "empty"}
       THEN [threw |-> TRUE, type |-> "none", fields |-> {}]
       ELSE [threw |-> FALSE, type |-> raw.type, fields |-> raw.fields]

ServerError(n) ==
    [status |-> 500, step |-> 0, fields |-> {},
     error |-> CASE n = 1 -> "Failed to analyze business"
                 [] n = 2 -> "Failed to analyze competitive advantage"
                 [] n = 3 -> "Failed to analyze management"
                 [] n = 4 -> "Failed to analyze valuation"]

\* handleStep1..4: callClaude, parseJSON, then the response picks the fields
\* of the step's shape from the parsed value (a missing one is undefined and is
\* left out of the JSON); reading a property of null throws, of an array or
\* of an object does not.  Whatever is thrown gives the 500 response.
handleStep(n, gen) ==
    IF gen.threw THEN ServerError(n)
    ELSE LET parsed == parseJSON(gen)
         IN IF parsed.threw \/ parsed.type = "null" THEN ServerError(n)
            ELSE [status |-> 200, step |-> n,
                  fields |-> parsed.fields \cap StepFields[n], error |-> NULL]

\* POST /api/analyze.
analyzePOST(step, stockData, gen) ==
    IF step = 0 \/ stockData = NoData
       THEN [status |-> 400, step |-> 0, fields |-> {},
             error |-> "step and stockData are required"]
    ELSE IF step \notin Steps
       THEN [status |-> 400, step |-> 0, fields |-> {}, error |-> "Invalid step"]
    ELSE handleStep(step, gen)

\* The fetch itself is rejected: no response.
\* JavaScript values, each with the text that a template literal gives it.
JsNull == [type |-> "null", text |-> "null"]
JsUndefined == [type |-> "undefined", text |-> "undefined"]
Str(t) == [type |-> "string", text |-> t]
Num(t) == [type |-> "number", text |-> t]

falsy(x) == x.type \in {"null", "undefined"} \/ x = Str("") \/ x = Num("0")
nullish(x) == x.type \in {"null", "undefined"}

\* The fields of StockData that buildDataBlock embeds.
NameFields == {"companyName", "ticker"}
SummaryFields == {"businessSummary"}
NumericFields ==
    {"currentPrice", "revenue", "netIncome", "profitMargin", "marketCap", "roic",
     "peRatio", "forwardPE", "fiftyTwoWeekLow", "fiftyTwoWeekHigh"}
EmbeddedFields == NameFields \cup SummaryFields \cup NumericFields

\* Variant of buildDataBlock with || in place of ?? for the numbers.
buildDataBlock_or(sd) ==
    [f \in EmbeddedFields |->
        IF f \in NameFields THEN sd[f].text
        ELSE IF f \in SummaryFields
           THEN IF falsy(sd[f]) THEN "Not available" ELSE sd[f].text
        ELSE IF falsy(sd[f]) THEN "N/A" ELSE sd[f].text]

\* buildDataBlock: what each embedded field contributes to the block:
\* ${x}, ${x || "Not available"} or ${x ?? "N/A"}.
buildDataBlock(sd) ==
    [f \in EmbeddedFields |->
        IF f \in NameFields THEN sd[f].text
        ELSE IF f \in SummaryFields
           THEN IF falsy(sd[f]) THEN "Not available" ELSE sd[f].text
        ELSE IF nullish(sd[f]) THEN "N/A" ELSE sd[f].text]

\* The stockData of a request: records of the StockData interface, the
\* nullable fields present or absent; a business summary may be empty and a
\* number may be 0.
StockDatas ==
    { [f \in EmbeddedFields |->
          IF f = "companyName" THEN Str("The Coca-Cola Company")
          ELSE IF f = "ticker" THEN Str("KO")
          ELSE IF f \in SummaryFields THEN summary
          ELSE IF f \in S THEN v ELSE Num("42.5")] :
        summary \in {JsNull, JsUndefined, Str(""), Str("Sells beverages.")},
        S \in SUBSET NumericFields,
        v \in {JsNull, JsUndefined, Num("0")} }

\* A body without stockData, and the value of request while none is modelled.
NoStockData == [f \in EmbeddedFields |-> JsUndefined]
NoRequest == [step |-> 0, stockData |-> NoStockData]

\* The prompt variable before a request is served, and after one that was
\* answered without a generation call.
NoPrompt == [served |-> FALSE, status |-> 0, called |-> FALSE, step |-> 0,
             block |-> [f \in EmbeddedFields |-> ""]]

NetworkError == [status |-> 0, step |-> 0, fields |-> {}, error |-> "Failed to fetch"]

\* The outcomes of the request req as fetch_ sees them.
Responses(req) ==
    {analyzePOST(req.step, req.ticker, g) : g \in Generations(req.step)}
        \cup {NetworkError}

\* ------------------------------------------------------- useStepAnalysis
\* The cells of the four hooks and the request queue, as one value.
Hooks == [analysis |-> analysis, loading |-> loading, error |-> error,
          pendingEffect |-> pendingEffect, inflight |-> inflight, issued |-> issued,
          run |-> run, data |-> data]

\* The request of hook n: body { step, stockData: data }.  k numbers the requests
\* of the hook and identifies the text its response carries.
Request(h, n) == [run |-> h.run, step |-> n, k |-> h.issued[n] + 1, ticker |-> h.data]

\* fetch_ up to its await, for every hook in S: setLoading(true), setError(null), fetch().
fetch_(h, S) ==
    [h EXCEPT !.loading = [n \in Steps |-> IF n \in S THEN TRUE ELSE h.loading[n]],
              !.error = [n \in Steps |-> IF n \in S THEN NULL ELSE h.error[n]],
              !.issued = [n \in Steps |-> IF n \in S THEN h.issued[n] + 1 ELSE h.issued[n]],
              !.inflight = h.inflight \cup {Request(h, n) : n \in S}]

\* Variant of effectGuard that does not look at the cached analysis.
effectGuard_noCache(h, currentStep, n) ==
    currentStep = n /\ ~h.loading[n]

\* The guard of the effect of hook n in a render with the given current step.
effectGuard(h, currentStep, n) ==
    currentStep = n /\ h.analysis[n] = NoAnalysis /\ ~h.loading[n]

\* The effects committed by an earlier render run before the next render.
flushPassiveEffects(h) ==
    [fetch_(h, {n \in Steps : h.pendingEffect[n]}) EXCEPT
        !.pendingEffect = [n \in Steps |-> FALSE]]

\* Render caused by a click: the effects run before the click returns.
renderSync(h0, currentStep) ==
    LET h == flushPassiveEffects(h0)
    IN fetch_(h, {n \in Steps : effectGuard(h, currentStep, n)})

\* Render caused by a fetch continuation: the effects are committed, not yet run.
renderDeferred(h0, currentStep) ==
    LET h == flushPassiveEffects(h0)
    IN [h EXCEPT !.pendingEffect = [n \in Steps |-> effectGuard(h, currentStep, n)]]

Commit(h) ==
    /\ analysis' = h.analysis
    /\ loading' = h.loading
    /\ error' = h.error
    /\ pendingEffect' = h.pendingEffect
    /\ inflight' = h.inflight
    /\ issued' = h.issued

\* Variant of FreshHooks in which the analyses survive the instance.
FreshHooks_keepCache(h) ==
    [h EXCEPT !.loading = [n \in Steps |-> FALSE],
              !.error = [n \in Steps |-> NULL],
              !.pendingEffect = [n \in Steps |-> FALSE],
              !.issued = [n \in Steps |-> 0]]

\* The initial cells of a KillChainFlow instance (useState initialisers).
FreshHooks(h) ==
    [h EXCEPT !.analysis = [n \in Steps |-> NoAnalysis],
              !.loading = [n \in Steps |-> FALSE],
              !.error = [n \in Steps |-> NULL],
              !.pendingEffect = [n \in Steps |-> FALSE],
              !.issued = [n \in Steps |-> 0]]

FreshFlow ==
    /\ showStep1Fail' = FALSE
    /\ memoSaving' = FALSE
    /\ memoSaved' = FALSE
    /\ memoError' = NULL

\* The page after its first render and the server module after its load,
\* with or without a configured store.
Loaded(cfg) ==
    /\ data = NoData
    /\ searchLoading = FALSE
    /\ killChainActive = FALSE
    /\ killChainStep = 1
    /\ stepResults = <<>>
    /\ showStep1Fail = FALSE
    /\ memoSaving = FALSE
    /\ memoSaved = FALSE
    /\ memoError = NULL
    /\ analysis = [n \in Steps |-> NoAnalysis]
    /\ loading = [n \in Steps |-> FALSE]
    /\ error = [n \in Steps |-> NULL]
    /\ pendingEffect = [n \in Steps |-> FALSE]
    /\ inflight = {}
    /\ memoInflight = {}
    /\ searchInflight = NoData
    /\ memos = <<>>
    /\ supabaseConfigured = cfg
    /\ _supabase = NULL
    /\ created = 0
    /\ run = 0
    /\ issued = [n \in Steps |-> 0]
    /\ failed = {}
    /\ events = 0

Init ==
    /\ \E cfg \in BOOLEAN : Loaded(cfg)
    /\ request = NoRequest
    /\ prompt = NoPrompt

\* ------------------------------------------------------------- Dashboard
\* Variant of handleSearch submitted during a run, which it leaves mounted.
handleSearch_duringRun(t) ==
    /\ ~searchLoading
    /\ searchLoading' = TRUE
    /\ data' = NoData
    /\ killChainActive' = killChainActive
    /\ searchInflight' = t
    /\ UNCHANGED <<killChainStep, stepResults, flow, hooks, memoInflight, store, run, failed, events>>
    /\ UNCHANGED prompting

\* handleSearch up to its await; the form is rendered only outside a run.
handleSearch(t) ==
    /\ ~(killChainActive /\ data # NoData)
    /\ ~searchLoading
    /\ searchLoading' = TRUE
    /\ data' = NoData
    /\ killChainActive' = FALSE
    /\ searchInflight' = t
    /\ UNCHANGED <<killChainStep, stepResults, flow, hooks, memoInflight, store, run, failed, events>>
    /\ UNCHANGED prompting

\* handleSearch after its await: setData(json) or setError, then setLoading(false).
handleSearchResolve(ok) ==
    /\ searchInflight # NoData
    /\ data' = IF ok THEN searchInflight ELSE data
    /\ searchLoading' = FALSE
    /\ searchInflight' = NoData
    /\ UNCHANGED <<killChainActive, killChainStep, stepResults, flow, hooks, memoInflight, store, run, failed, events>>
    /\ UNCHANGED prompting

\* RUN KILL CHAIN ANALYSIS: mounts a KillChainFlow instance; its first render
\* runs the effect of hook 1.
startKillChain ==
    /\ ~killChainActive
    /\ data # NoData
    /\ run > 0 => events < MaxEvents
    /\ events' = IF run > 0 THEN events + 1 ELSE events
    /\ killChainActive' = TRUE
    /\ killChainStep' = 1
    /\ stepResults' = <<>>
    /\ run' = run + 1
    /\ failed' = {}
    /\ FreshFlow
    /\ Commit(renderSync([FreshHooks(Hooks) EXCEPT !.run = run + 1], 1))
    /\ UNCHANGED <<data, searchLoading, memoInflight, searchInflight, store>>
    /\ UNCHANGED prompting

\* NEW ANALYSIS / BACK TO SEARCH: unmounts the KillChainFlow instance.  The
\* effects it had committed run before the render that unmounts it.
resetKillChain ==
    /\ killChainActive' = FALSE
    /\ killChainStep' = 1
    /\ stepResults' = <<>>
    /\ FreshFlow
    /\ Commit(FreshHooks(flushPassiveEffects(Hooks)))
    /\ failed' = {}
    /\ UNCHANGED <<data, searchLoading, memoInflight, searchInflight, store, run, events>>
    /\ UNCHANGED prompting

\* Variant of handleStepPass that records the outcome and stays on the step.
handleStepPass_stay(notes) ==
    /\ stepResults' = Append(stepResults, [passed |-> "true", notes |-> notes])
    /\ killChainStep' = killChainStep

handleStepPass(notes) ==
    /\ stepResults' = Append(stepResults, [passed |-> "true", notes |-> notes])
    /\ killChainStep' = killChainStep + 1

handleStepFail(notes) ==
    /\ stepResults' = Append(stepResults, [passed |-> "false", notes |-> notes])
    /\ killChainStep' = killChainStep + 1

handleStepUnsure(notes) ==
    /\ stepResults' = Append(stepResults, [passed |-> NULL, notes |-> notes])
    /\ killChainStep' = killChainStep + 1

\* Variant of goToStep that moves an out-of-range step to the nearest valid one.
goToStep_clamp(step) ==
    LET maxStep == IF Len(stepResults) + 1 < 5 THEN Len(stepResults) + 1 ELSE 5
    IN /\ killChainStep' = IF step < 1 THEN 1 ELSE IF step > maxStep THEN maxStep ELSE step
       /\ UNCHANGED stepResults

\* Variant of goToStep without the upper limit.
goToStep_noMax(step) ==
    /\ killChainStep' = IF step >= 1 THEN step ELSE killChainStep
    /\ UNCHANGED stepResults

\* Variant of goToStep that drops the outcomes from the revisited step on.
goToStep_truncate(step) ==
    LET maxStep == IF Len(stepResults) + 1 < 5 THEN Len(stepResults) + 1 ELSE 5
        valid == step >= 1 /\ step <= maxStep
    IN /\ killChainStep' = IF valid THEN step ELSE killChainStep
       /\ stepResults' = IF valid THEN SubSeq(stepResults, 1, step - 1) ELSE stepResults

goToStep(step) ==
    LET maxStep == IF Len(stepResults) + 1 < 5 THEN Len(stepResults) + 1 ELSE 5
    IN /\ killChainStep' = IF step >= 1 /\ step <= maxStep THEN step ELSE killChainStep
       /\ UNCHANGED stepResults

\* --------------------------------------------------------- KillChainFlow
activeStep == Len(stepResults) + 1
\* Variant of isReviewing that excludes the step decided last.
isReviewing_notLast == killChainStep < activeStep - 1 /\ killChainStep <= 4

isReviewing == killChainStep < activeStep /\ killChainStep <= 4

\* The fields of the analysis that the view of step n dereferences
\* (characteristics.map, moatRating.toUpperCase, verdict.toUpperCase,
\* marginOfSafety.toUpperCase).
DerefFields ==
    [n \in Steps |->
        CASE n = 1 -> {"characteristics"}
          [] n = 2 -> {"moatRating"}
          [] n = 3 -> {}
          [] n = 4 -> {"verdict", "marginOfSafety"}]

\* The render of the current step's view threw: nothing is rendered any more
\* and the component tree is unmounted.
crashed ==
    /\ killChainActive /\ ~showStep1Fail
    /\ killChainStep \in Steps
    /\ analysis[killChainStep] # NoAnalysis
    /\ ~(DerefFields[killChainStep] \subseteq analysis[killChainStep].fields)

mounted == killChainActive /\ ~crashed

\* Which of the three screens the mounted instance renders.
failScreen == killChainActive /\ showStep1Fail
summaryScreen == killChainActive /\ ~showStep1Fail /\ killChainStep = 5
stepScreen(n) == mounted /\ ~showStep1Fail /\ killChainStep # 5 /\ killChainStep = n

\* Variant of decideOffered that renders the buttons before the analysis is there.
decideOffered_beforeLoaded(n) == stepScreen(n) /\ ~isReviewing

\* Variant of decideOffered that also renders the buttons under review.
decideOffered_inReview(n) == stepScreen(n) /\ analysis[n] # NoAnalysis

\* The PASS / FAIL / UNSURE buttons of step n are rendered.
decideOffered(n) == stepScreen(n) /\ analysis[n] # NoAnalysis /\ ~isReviewing

\* The free text of the analysis that the buttons pass as notes.
notesOf(n) ==
    IF NotesField[n] \in analysis[n].fields THEN analysis[n].k ELSE Undefined

clickPass(n) ==
    /\ decideOffered(n)
    /\ handleStepPass(notesOf(n))
    /\ Commit(renderSync(Hooks, killChainStep'))
    /\ UNCHANGED <<data, searchLoading, killChainActive, flow, memoInflight, searchInflight, store, run, failed, events>>
    /\ UNCHANGED prompting

\* Variant of clickFail that never shows the step-1 fail screen.
clickFail_noFailScreen(n) ==
    /\ decideOffered(n)
    /\ handleStepFail(notesOf(n))
    /\ showStep1Fail' = showStep1Fail
    /\ Commit(renderSync(Hooks, killChainStep'))
    /\ UNCHANGED <<data, searchLoading, killChainActive, memoSaving, memoSaved, memoError, memoInflight, searchInflight, store, run, failed, events>>
    /\ UNCHANGED prompting

\* Variant of clickFail that shows the fail screen after a FAIL at any step.
clickFail_alwaysFailScreen(n) ==
    /\ decideOffered(n)
    /\ handleStepFail(notesOf(n))
    /\ showStep1Fail' = TRUE
    /\ Commit(renderSync(Hooks, killChainStep'))
    /\ UNCHANGED <<data, searchLoading, killChainActive, memoSaving, memoSaved, memoError, memoInflight, searchInflight, store, run, failed, events>>
    /\ UNCHANGED prompting

clickFail(n) ==
    /\ decideOffered(n)
    /\ handleStepFail(notesOf(n))
    /\ showStep1Fail' = IF n = 1 THEN TRUE ELSE showStep1Fail
    /\ Commit(renderSync(Hooks, killChainStep'))
    /\ UNCHANGED <<data, searchLoading, killChainActive, memoSaving, memoSaved, memoError, memoInflight, searchInflight, store, run, failed, events>>
    /\ UNCHANGED prompting

\* Variant of clickUnsure that does not show the fail screen.
clickUnsure_noFailScreen ==
    /\ decideOffered(1)
    /\ handleStepUnsure(notesOf(1))
    /\ showStep1Fail' = showStep1Fail
    /\ Commit(renderSync(Hooks, killChainStep'))
    /\ UNCHANGED <<data, searchLoading, killChainActive, memoSaving, memoSaved, memoError, memoInflight, searchInflight, store, run, failed, events>>
    /\ UNCHANGED prompting

clickUnsure ==
    /\ decideOffered(1)
    /\ handleStepUnsure(notesOf(1))
    /\ showStep1Fail' = TRUE
    /\ Commit(renderSync(Hooks, killChainStep'))
    /\ UNCHANGED <<data, searchLoading, killChainActive, memoSaving, memoSaved, memoError, memoInflight, searchInflight, store, run, failed, events>>
    /\ UNCHANGED prompting

\* onGoToStep as called by the progress bar, the back button, the review
\* Continue button and the summary rows; a call that leaves killChainStep as
\* it is causes no render.
onGoToStep(n) ==
    /\ mounted /\ ~showStep1Fail
    /\ goToStep(n)
    /\ IF killChainStep' # killChainStep
          THEN Commit(renderSync(Hooks, killChainStep'))
          ELSE UNCHANGED hooks
    /\ UNCHANGED <<data, searchLoading, killChainActive, flow, memoInflight, searchInflight, store, run, failed, events>>
    /\ UNCHANGED prompting

\* The Retry link of StepError, rendered while error is set: onRetry = fetch_.
clickRetry(n) ==
    /\ stepScreen(n)
    /\ error[n] # NULL
    /\ Commit(renderSync(fetch_(Hooks, {n}), killChainStep))
    /\ UNCHANGED <<dash, flow, memoInflight, searchInflight, store, run, failed, events>>
    /\ UNCHANGED prompting

clickReset ==
    /\ failScreen \/ summaryScreen
    /\ resetKillChain

\* ------------------------------------------------ /api/analyze responses
\* Variant of instanceAlive: any mounted instance takes the response.
instanceAlive_any(req) == mounted

\* The instance whose closure awaits the response of req is still mounted
\* (the setters of an unmounted component change nothing).
instanceAlive(req) == mounted /\ req.run = run

\* Variant of fetchContinuation that drops a response arriving while another
\* step is the current one.
fetchContinuation_onlyCurrent(h, req, res) ==
    LET n == req.step
        ok == res.status = 200 /\ killChainStep = n
    IN [h EXCEPT
          !.analysis[n] = IF ok THEN [step |-> res.step, fields |-> res.fields,
                                      run |-> req.run, k |-> req.k]
                                ELSE @,
          !.error[n] = IF res.status = 200 THEN @ ELSE res.error,
          !.loading[n] = FALSE,
          !.inflight = @ \ {req}]

\* Variant of fetchContinuation in which a failure clears the analyses of the
\* other steps.
fetchContinuation_failureClears(h, req, res) ==
    LET n == req.step
        ok == res.status = 200
    IN [h EXCEPT
          !.analysis = [m \in Steps |->
                          IF m = n
                             THEN IF ok THEN [step |-> res.step, fields |-> res.fields,
                                              run |-> req.run, k |-> req.k]
                                        ELSE @[m]
                             ELSE IF ok THEN @[m] ELSE NoAnalysis],
          !.error[n] = IF ok THEN @ ELSE res.error,
          !.loading[n] = FALSE,
          !.inflight = @ \ {req}]

\* Variant of fetchContinuation that caches an empty record for a failure.
fetchContinuation_cacheFailure(h, req, res) ==
    LET n == req.step
        ok == res.status = 200
    IN [h EXCEPT
          !.analysis[n] = [step |-> n, fields |-> res.fields, run |-> req.run, k |-> req.k],
          !.error[n] = IF ok THEN @ ELSE res.error,
          !.loading[n] = FALSE,
          !.inflight = @ \ {req}]

\* fetch_ after its await: res.json(), throw unless res.ok, setAnalysis(json);
\* catch: setError(message); finally: setLoading(false).
fetchContinuation(h, req, res) ==
    LET n == req.step
        ok == res.status = 200
    IN [h EXCEPT
          !.analysis[n] = IF ok THEN [step |-> res.step, fields |-> res.fields,
                                      run |-> req.run, k |-> req.k]
                                ELSE @,
          !.error[n] = IF ok THEN @ ELSE res.error,
          !.loading[n] = FALSE,
          !.inflight = @ \ {req}]

\* The response of req arrives in the instance that issued it.
fetchResolve(req, res) ==
    /\ req \in inflight
    /\ instanceAlive(req)
    /\ res \in Responses(req)
    /\ LET n == req.step
           ok == res.status = 200
           complete == ok /\ res.fields = StepFields[n]
       IN /\ ~complete => events < MaxEvents
          /\ events' = IF complete THEN events ELSE events + 1
          /\ failed' = IF ok THEN failed ELSE failed \cup {n}
          /\ Commit(renderDeferred(fetchContinuation(Hooks, req, res), killChainStep))
    /\ UNCHANGED <<dash, flow, memoInflight, searchInflight, store, run>>
    /\ UNCHANGED prompting

\* fetch_ after its await, when the instance that issued the request is gone:
\* the setters of an unmounted component change nothing.
fetchResolveUnmounted(req) ==
    /\ req \in inflight
    /\ ~instanceAlive(req)
    /\ inflight' = inflight \ {req}
    /\ UNCHANGED <<dash, flow, analysis, loading, error, pendingEffect, issued, memoInflight, searchInflight, store, run, failed, events>>
    /\ UNCHANGED prompting

\* The committed effect of hook n runs in its own task.
runEffect ==
    /\ mounted
    /\ \E n \in Steps : pendingEffect[n]
    /\ Commit(flushPassiveEffects(Hooks))
    /\ UNCHANGED <<dash, flow, memoInflight, searchInflight, store, run, failed, events>>
    /\ UNCHANGED prompting

\* ------------------------------------------------------------- SAVE MEMO
\* Variant of allPassed: some instead of every.
allPassed_some == \E i \in 1..Len(stepResults) : stepResults[i].passed = "true"

allPassed == \A i \in 1..Len(stepResults) : stepResults[i].passed = "true"

\* The verdict of the summary screen and of the memo.
overallVerdict == IF allPassed THEN "STRONG BUY CANDIDATE" ELSE "DOES NOT PASS"

\* Variant of passedAt that reads the first outcome for every step.
passedAt_first(i) == IF 1 <= Len(stepResults) THEN stepResults[1].passed ELSE NULL

passedAt(i) == IF i <= Len(stepResults) THEN stepResults[i].passed ELSE NULL

memoBody ==
    [ticker |-> data, company_name |-> data,
     step1_passed |-> passedAt(1), step1_analysis |-> analysis[1],
     step2_passed |-> passedAt(2), step2_analysis |-> analysis[2],
     step3_passed |-> passedAt(3), step3_analysis |-> analysis[3],
     step4_passed |-> passedAt(4), step4_analysis |-> analysis[4],
     overall_verdict |-> overallVerdict,
     stock_data |-> data]

\* Variant of clickSaveMemo whose button is never disabled.
clickSaveMemo_notDisabled ==
    /\ summaryScreen
    /\ events < MaxEvents
    /\ events' = events + 1
    /\ memoSaving' = TRUE
    /\ memoError' = NULL
    /\ memoInflight' = memoInflight \cup {[run |-> run, body |-> memoBody]}
    /\ Commit(renderSync(Hooks, killChainStep))
    /\ UNCHANGED <<dash, showStep1Fail, memoSaved, searchInflight, store, run, failed>>
    /\ UNCHANGED prompting

\* onClick of SAVE MEMO up to its await.
clickSaveMemo ==
    /\ summaryScreen
    /\ ~(memoSaving \/ memoSaved)
    /\ events < MaxEvents
    /\ events' = events + 1
    /\ memoSaving' = TRUE
    /\ memoError' = NULL
    /\ memoInflight' = memoInflight \cup {[run |-> run, body |-> memoBody]}
    /\ Commit(renderSync(Hooks, killChainStep))
    /\ UNCHANGED <<dash, showStep1Fail, memoSaved, searchInflight, store, run, failed>>
    /\ UNCHANGED prompting

\* ------------------------------------- lib/supabase.ts, /api/memos
NotConfigured == "Supabase is not configured"

\* Variant of getSupabase that constructs a client on every call.
getSupabase_noCache ==
    [threw |-> ~supabaseConfigured,
     client |-> IF supabaseConfigured THEN "client" ELSE _supabase,
     created |-> IF supabaseConfigured THEN created + 1 ELSE created]

\* getSupabase: whether it throws, and the module's _supabase and the number
\* of createClient calls after the call.
getSupabase ==
    IF _supabase # NULL
       THEN [threw |-> FALSE, client |-> _supabase, created |-> created]
    ELSE IF ~supabaseConfigured
       THEN [threw |-> TRUE, client |-> NULL, created |-> created]
    ELSE [threw |-> FALSE, client |-> "client", created |-> created + 1]

\* The row inserted for a request body (id and created_at left out).
insertRow(body) ==
    [ticker |-> body.ticker, company_name |-> body.company_name,
     step1_passed |-> body.step1_passed, step1_analysis |-> body.step1_analysis,
     step2_passed |-> body.step2_passed, step2_analysis |-> body.step2_analysis,
     step3_passed |-> body.step3_passed, step3_analysis |-> body.step3_analysis,
     step4_passed |-> body.step4_passed, step4_analysis |-> body.step4_analysis,
     overall_verdict |-> body.overall_verdict, stock_data |-> body.stock_data]

\* What the store does with a query: it carries it out, it reports an error,
\* or the request never reaches the server.
DbOutcomes == {"ok", "error", "network"}

\* POST /api/memos: status, error message and the rows of the table after it.
memosPOST(body, db) ==
    IF getSupabase.threw
       THEN [status |-> 503, error |-> NotConfigured, rows |-> memos]
    ELSE IF body.ticker = NoData \/ body.company_name = NoData
       THEN [status |-> 400, error |-> "ticker and company_name are required", rows |-> memos]
    ELSE IF db = "error"
       THEN [status |-> 500, error |-> "Failed to save memo", rows |-> memos]
    ELSE [status |-> 200, error |-> NULL, rows |-> Append(memos, insertRow(body))]

\* GET /api/memos: status and the rows it returns, most recent first.
memosGET(db) ==
    IF getSupabase.threw
       THEN [status |-> 503, error |-> NotConfigured, rows |-> <<>>]
    ELSE IF db = "error"
       THEN [status |-> 500, error |-> "Failed to fetch memos", rows |-> <<>>]
    ELSE [status |-> 200, error |-> NULL,
          rows |-> [i \in 1..Len(memos) |-> memos[Len(memos) + 1 - i]]]

\* The server module is loaded: the constants are read from the environment.
serverStart(cfg) ==
    /\ events < MaxEvents
    /\ events' = events + 1
    /\ supabaseConfigured' = cfg
    /\ _supabase' = NULL
    /\ created' = 0
    /\ UNCHANGED <<dash, flow, hooks, memoInflight, searchInflight, memos, run, failed>>
    /\ UNCHANGED prompting

\* Variant of memoErrorOf that shows no message.
memoErrorOf_silent(res) == NULL

\* The message of a failed save: json.error || "Failed to save".
memoErrorOf(res) == IF res.error # NULL THEN res.error ELSE "Failed to save"

\* POST /api/memos and the continuation of the onClick: setMemoSaved(true)
\* and onMemoSaved(), or setMemoError; finally setMemoSaving(false).  (The
\* Dashboard's list of saved memos, which onMemoSaved refreshes, is not part
\* of the state; its requests are among the listings of memosList.)
saveResolve(req, db) ==
    /\ req \in memoInflight
    /\ memoInflight' = memoInflight \ {req}
    /\ LET res == IF db = "network"
                     THEN [status |-> 0, error |-> "Failed to fetch", rows |-> memos]
                     ELSE memosPOST(req.body, db)
           ok == res.status = 200
       IN /\ memos' = res.rows
          /\ _supabase' = IF db = "network" THEN _supabase ELSE getSupabase.client
          /\ created' = IF db = "network" THEN created ELSE getSupabase.created
          /\ IF instanceAlive(req)
                THEN /\ memoSaved' = (ok \/ memoSaved)
                     /\ memoError' = IF ok THEN memoError ELSE memoErrorOf(res)
                     /\ memoSaving' = FALSE
                     /\ Commit(renderDeferred(Hooks, killChainStep))
                ELSE UNCHANGED <<memoSaved, memoError, memoSaving, hooks>>
    /\ UNCHANGED <<dash, showStep1Fail, searchInflight, supabaseConfigured, run, failed, events>>
    /\ UNCHANGED prompting

\* Request bodies a client other than the SAVE MEMO button can send: a memo
\* of the first outcome only, with and without its ticker and company name.
OneOutcomeBody(t) ==
    [ticker |-> t, company_name |-> t,
     step1_passed |-> "true", step1_analysis |-> NoAnalysis,
     step2_passed |-> NULL, step2_analysis |-> NoAnalysis,
     step3_passed |-> NULL, step3_analysis |-> NoAnalysis,
     step4_passed |-> NULL, step4_analysis |-> NoAnalysis,
     overall_verdict |-> "DOES NOT PASS", stock_data |-> t]

RequestBodies == {OneOutcomeBody(t) : t \in Tickers \cup {NoData}}

\* A client posts a memo: POST /api/memos is served.
memosCreate(body, db) ==
    /\ db # "network"
    /\ events < MaxEvents
    /\ events' = events + 1
    /\ memos' = memosPOST(body, db).rows
    /\ _supabase' = getSupabase.client
    /\ created' = getSupabase.created
    /\ UNCHANGED <<dash, flow, hooks, memoInflight, searchInflight,
                   supabaseConfigured, run, failed>>
    /\ UNCHANGED prompting

\* A client lists the memos: GET /api/memos is served.
memosList(db) ==
    /\ db # "network"
    /\ events < MaxEvents
    /\ events' = events + 1
    /\ _supabase' = getSupabase.client
    /\ created' = getSupabase.created
    /\ UNCHANGED <<dash, flow, hooks, memoInflight, searchInflight, memos,
                   supabaseConfigured, run, failed>>
    /\ UNCHANGED prompting

Next ==
    \/ \E t \in Tickers : handleSearch(t)
    \/ \E ok \in BOOLEAN : handleSearchResolve(ok)
    \/ startKillChain
    \/ clickReset
    \/ \E n \in Steps : clickPass(n)
    \/ \E n \in Steps : clickFail(n)
    \/ clickUnsure
    \/ \E n \in NavInputs : onGoToStep(n)
    \/ \E n \in Steps : clickRetry(n)
    \/ \E req \in inflight : \E res \in Responses(req) : fetchResolve(req, res)
    \/ \E req \in inflight : fetchResolveUnmounted(req)
    \/ runEffect
    \/ clickSaveMemo
    \/ \E req \in memoInflight, db \in DbOutcomes : saveResolve(req, db)
    \/ \E body \in RequestBodies, db \in DbOutcomes : memosCreate(body, db)
    \/ \E db \in DbOutcomes : memosList(db)
    \/ \E cfg \in BOOLEAN : serverStart(cfg)

Spec == Init /\ [][Next]_vars

\* --------------------------------------------- a run of a passing user
\* The user searches, starts one run, decides PASS where a decision is
\* offered and may click Retry; the requests are answered and React runs the
\* effects it committed.
NextLive ==
    \/ \E t \in Tickers : handleSearch(t)
    \/ \E ok \in BOOLEAN : handleSearchResolve(ok)
    \/ startKillChain
    \/ \E n \in Steps : clickPass(n)
    \/ \E n \in Steps : clickRetry(n)
    \/ \E req \in inflight : \E res \in Responses(req) : fetchResolve(req, res)
    \/ \E req \in inflight : fetchResolveUnmounted(req)
    \/ runEffect

\* The requests a hook can have issued within the bound.
MaxIssued == 2 * MaxEvents + 2

\* The answer to the k-th request of hook n arrives.
answer(n, k) ==
    \E req \in inflight :
        /\ req.step = n /\ req.k = k
        /\ \/ \E res \in Responses(req) : fetchResolve(req, res)
           \/ fetchResolveUnmounted(req)

\* Every request is answered, every committed effect runs, and the user
\* takes PASS when it is offered.
Fairness ==
    /\ \A n \in Steps, k \in 1..MaxIssued : WF_vars(answer(n, k))
    /\ WF_vars(runEffect)
    /\ \A n \in Steps : WF_vars(clickPass(n))

SpecLive == Init /\ [][NextLive]_vars /\ Fairness

\* ------------------------------------ /api/analyze, one request served
\* The step of a body: 0 for a missing or falsy step, 5 for any other value
\* that is not a key of handlers.
StepInputs == 0..5

Requests ==
    {[step |-> n, stockData |-> sd] : n \in StepInputs, sd \in StockDatas \cup {NoStockData}}

\* POST /api/analyze serves the request: the status of its answer, whether
\* callClaude was called and, if so, the step and the data block of its prompt.
analyzeServe(gen) ==
    /\ ~prompt.served
    /\ LET sd == request.stockData
           res == analyzePOST(request.step,
                              IF sd = NoStockData THEN NoData ELSE sd["ticker"].text, gen)
           called == res.status # 400
       IN prompt' = [served |-> TRUE, status |-> res.status, called |-> called,
                     step |-> IF called THEN request.step ELSE 0,
                     block |-> IF called THEN buildDataBlock(sd) ELSE NoPrompt.block]
    /\ UNCHANGED <<dash, flow, hooks, memoInflight, searchInflight, store, run, failed, events, request>>

InitPrompt ==
    /\ Loaded(FALSE)
    /\ request \in Requests
    /\ prompt = NoPrompt

NextPrompt ==
    \E gen \in Generations(IF request.step \in Steps THEN request.step ELSE 1) : analyzeServe(gen)

SpecPrompt == InitPrompt /\ [][NextPrompt]_vars


\* ------------------------------------------------------------ properties
\* A PASS, FAIL or UNSURE button is clicked in this step.
decide == (\E n \in Steps : clickPass(n) \/ clickFail(n)) \/ clickUnsure

\* The first outcome of the running ledger is fail or unsure.
disqualified ==
    killChainActive /\ Len(stepResults) >= 1 /\ stepResults[1].passed # "true"

\* C1: with four outcomes recorded the verdict is STRONG BUY CANDIDATE exactly
\* when all four have passed = true; one fail or unsure outcome gives DOES NOT
\* PASS.  The same holds of the verdict of every memo sent to or kept by the
\* store, against the four passed fields of that memo.
C1_Verdict ==
    /\ Len(stepResults) = 4
         => /\ overallVerdict = "STRONG BUY CANDIDATE"
                 <=> \A i \in 1..4 : stepResults[i].passed = "true"
            /\ (\E i \in 1..4 : stepResults[i].passed \in {"false", NULL})
                 => overallVerdict = "DOES NOT PASS"
    /\ \A b \in {r.body : r \in memoInflight} \cup {memos[i] : i \in DOMAIN memos} :
         /\ b.overall_verdict \in {"STRONG BUY CANDIDATE", "DOES NOT PASS"}
         /\ b.overall_verdict = "STRONG BUY CANDIDATE"
              <=> /\ b.step1_passed = "true"
                  /\ b.step2_passed = "true"
                  /\ b.step3_passed = "true"
                  /\ b.step4_passed = "true"

\* The summary of a run with four passes, its memo on the way to the store.
C1_Witness ==
    /\ summaryScreen
    /\ \A i \in 1..4 : stepResults[i].passed = "true"
    /\ \E r \in memoInflight :
         r.run = run /\ r.body.overall_verdict = "STRONG BUY CANDIDATE"

\* C2: a decision is taken on the active step n = length of the ledger + 1,
\* n in 1..4; it appends exactly one outcome, keeps the earlier ones and moves
\* the current step from n to n + 1; the fourth decision shows the summary.
C2_DecideAppends ==
    [][ /\ decide => Len(stepResults') = Len(stepResults) + 1
        /\ Len(stepResults') > Len(stepResults)
             => /\ killChainStep = Len(stepResults) + 1
                /\ killChainStep \in 1..4
                /\ Len(stepResults') = Len(stepResults) + 1
                /\ SubSeq(stepResults', 1, Len(stepResults)) = stepResults
                /\ stepResults'[Len(stepResults')].passed \in {"true", "false", NULL}
                /\ killChainStep' = killChainStep + 1
                /\ killChainStep = 4 => killChainStep' = 5 /\ summaryScreen'
      ]_vars

\* The summary right after four decisions.
C2_Witness ==
    /\ summaryScreen
    /\ Len(stepResults) = 4
    /\ \A n \in Steps : analysis[n] # NoAnalysis

\* C3: while the current step is not the active step (a decided step is under
\* review, or the summary is shown) no decision can be taken: no step of the
\* program adds to or alters the ledger, which only a reset empties.
C3_DecideOnlyActive ==
    [][ (killChainActive /\ killChainStep # Len(stepResults) + 1)
           => /\ ~decide
              /\ \/ stepResults' = stepResults
                 \/ stepResults' = <<>> /\ ~killChainActive'
      ]_vars

\* A decided step under review, its analysis on screen.
C3_Witness ==
    /\ killChainActive /\ ~showStep1Fail
    /\ killChainStep <= 4
    /\ killChainStep < Len(stepResults) + 1
    /\ analysis[killChainStep] # NoAnalysis

\* C4: goTo(n) moves the current step to n, ledger untouched, exactly when
\* 1 <= n <= min(length of the ledger + 1, 5); for any other n nothing at all
\* changes.  A step that changes only the current step lands in that range.
C4_GoTo ==
    [][ /\ \A n \in NavInputs :
             onGoToStep(n)
               => IF n >= 1 /\ n <= Len(stepResults) + 1 /\ n <= 5
                     THEN killChainStep' = n /\ stepResults' = stepResults
                     ELSE UNCHANGED vars
        /\ (killChainActive /\ killChainActive' /\ stepResults' = stepResults)
             => \/ killChainStep' = killChainStep
                \/ /\ killChainStep' >= 1
                   /\ killChainStep' <= Len(stepResults) + 1
                   /\ killChainStep' <= 5
      ]_vars

\* Step 2 revisited from the summary.
C4_Witness ==
    /\ killChainActive
    /\ Len(stepResults) = 4
    /\ killChainStep = 2

\* C5: once step 1 is decided fail or unsure the fail screen is shown and the
\* ledger stays at that one outcome: no step screen and no summary is
\* rendered, no navigation and no decision is possible, and the only step
\* that changes the run is the reset.
C5_Disqualified ==
    [][ /\ disqualified => failScreen /\ Len(stepResults) = 1
        /\ disqualified' => failScreen' /\ Len(stepResults') = 1
        /\ failScreen
             => /\ disqualified
                /\ ~summaryScreen
                /\ \A n \in Steps : ~stepScreen(n) /\ ~decideOffered(n)
                /\ \A n \in NavInputs : ~onGoToStep(n)
                /\ ~decide
                /\ \/ UNCHANGED <<killChainActive, killChainStep, stepResults, showStep1Fail>>
                   \/ clickReset
      ]_vars

\* The fail screen after FAIL at step 1.
C5_Witness ==
    /\ failScreen
    /\ Len(stepResults) = 1
    /\ stepResults[1].passed = "false"

\* C6: FAIL at step 2, 3 or 4 records the outcome and the run goes on: the
\* next step becomes the current one (the summary after step 4), the fail
\* screen is not shown and the run stays active.  No run with a fail at a step
\* after the first is on the fail screen.
C6_FailContinues ==
    [][ /\ \A n \in 2..4 :
             clickFail(n)
               => /\ stepResults'[n].passed = "false"
                  /\ killChainActive' /\ ~showStep1Fail'
                  /\ killChainStep' = n + 1
                  /\ IF n < 4 THEN stepScreen(n + 1)' ELSE summaryScreen'
        /\ (\E i \in 2..Len(stepResults') : stepResults'[i].passed = "false")
             => ~failScreen'
      ]_vars

\* The summary of a run that failed steps 2, 3 and 4.
C6_Witness ==
    /\ summaryScreen
    /\ Len(stepResults) = 4
    /\ \A i \in 2..4 : stepResults[i].passed = "false"

\* C7: a reset leaves no run: empty ledger, no cached analysis, current step
\* 1, as is the case whenever no run is active.  The run started next begins
\* on step 1 with an empty ledger, no analysis, no error, no memo flag, and
\* requests the analysis of step 1 anew.
C7_Reset ==
    [][ /\ clickReset
             => /\ ~killChainActive'
                /\ stepResults' = <<>>
                /\ killChainStep' = 1
                /\ analysis' = [n \in Steps |-> NoAnalysis]
        /\ ~killChainActive'
             => /\ stepResults' = <<>>
                /\ killChainStep' = 1
                /\ analysis' = [n \in Steps |-> NoAnalysis]
        /\ (~killChainActive /\ killChainActive')
             => /\ stepResults' = <<>>
                /\ killChainStep' = 1
                /\ stepScreen(1)'
                /\ analysis' = [n \in Steps |-> NoAnalysis]
                /\ error' = [n \in Steps |-> NULL]
                /\ ~memoSaving' /\ ~memoSaved' /\ memoError' = NULL
                /\ issued' = [n \in Steps |-> IF n = 1 THEN 1 ELSE 0]
      ]_vars

\* A second run, just started, while a request of the first is still pending.
C7_Witness ==
    /\ killChainActive
    /\ run >= 2
    /\ stepResults = <<>>
    /\ \E r \in inflight : r.run < run

\* C8: the current step is in 1..5, the ledger holds 0..4 outcomes and the
\* current step never exceeds the length of the ledger + 1.
C8_Bounds ==
    /\ killChainStep \in 1..5
    /\ Len(stepResults) \in 0..4
    /\ killChainStep <= Len(stepResults) + 1

\* Step 4 under review with the ledger full.
C8_Witness ==
    /\ killChainActive
    /\ Len(stepResults) = 4
    /\ killChainStep = 4

\* C9 as stated: a hook issues its request at most once per run.
C9_OncePerRun == \A n \in Steps : issued[n] <= 1

\* C9, amended: while no request of step n has failed in the run, the request
\* of step n is issued at most once, and the analysis it cached stays as it is
\* and causes no further request whatever steps are visited.
C9_OnceUnlessFailed ==
    [][ \A n \in Steps :
          /\ n \notin failed => issued[n] <= 1
          /\ n \notin failed' => issued'[n] <= 1
          /\ ( /\ killChainActive /\ killChainActive'
               /\ n \notin failed'
               /\ analysis[n] # NoAnalysis )
               => analysis'[n] = analysis[n] /\ issued'[n] = issued[n]
      ]_vars

\* A decided step revisited: its analysis is the cached one, one request made.
C9_Witness ==
    /\ killChainActive /\ ~showStep1Fail
    /\ killChainStep < Len(stepResults) + 1
    /\ killChainStep \notin failed
    /\ analysis[killChainStep] # NoAnalysis
    /\ issued[killChainStep] = 1
    /\ \A n \in Steps : n > killChainStep /\ n <= Len(stepResults) + 1 /\ n <= 4
                           => issued[n] = 1

\* C10 as stated: at most one request per run and step awaits its response.
C10_OneInFlight ==
    \A r1, r2 \in inflight : r1.run = r2.run /\ r1.step = r2.step => r1 = r2

\* C11: the response of a request whose run has been reset changes nothing:
\* when it arrives, the analyses, errors, loading flags, current step and
\* ledger stay as they are.  Every analysis a run holds was produced by a
\* request of that run, every loading flag stands for a request of that run
\* still in flight, every error for a failed request of that run.
C11_LateResultDiscarded ==
    [][ /\ \A r \in inflight \ inflight' :
             (r.run # run \/ ~killChainActive)
               => /\ analysis' = analysis
                  /\ error' = error
                  /\ loading' = loading
                  /\ UNCHANGED <<killChainActive, killChainStep, stepResults>>
        /\ \A n \in Steps :
             /\ analysis'[n] # NoAnalysis => killChainActive' /\ analysis'[n].run = run'
             /\ error'[n] # NULL => killChainActive' /\ n \in failed'
             /\ (loading'[n] /\ mounted')
                  => \E r \in inflight' : r.run = run' /\ r.step = n
      ]_vars

\* A run holding its own analysis of a step for which a request of an earlier
\* run is still in flight.
C11_Witness ==
    /\ killChainActive
    /\ \E r \in inflight :
         /\ r.run < run
         /\ analysis[r.step] # NoAnalysis
         /\ analysis[r.step].run = run

\* C12: a successful response for step n that arrives while another step is
\* the current one is cached under step n and under no other step, and moves
\* neither the current step nor the ledger; going to a step whose analysis is
\* cached shows that analysis and issues no request for the step.
C12_AcceptedWhileAway ==
    [][ /\ \A req \in inflight \ inflight' : \A res \in Responses(req) :
             (killChainStep # req.step /\ res.status = 200 /\ fetchResolve(req, res))
               => /\ analysis'[req.step] = [step |-> req.step, fields |-> res.fields,
                                            run |-> run, k |-> req.k]
                  /\ \A m \in Steps \ {req.step} : analysis'[m] = analysis[m]
                  /\ UNCHANGED <<killChainStep, stepResults>>
        /\ \A n \in Steps :
             (killChainStep # n /\ killChainStep' = n /\ analysis[n] # NoAnalysis /\ onGoToStep(n))
               => /\ analysis' = analysis
                  /\ issued'[n] = issued[n]
      ]_vars

\* The user is back on an earlier step while the request of the active step
\* is still in flight.
C12_Witness ==
    /\ mounted /\ ~showStep1Fail
    /\ killChainStep < Len(stepResults) + 1
    /\ Len(stepResults) + 1 <= 4
    /\ loading[Len(stepResults) + 1]
    /\ \E r \in inflight : r.run = run /\ r.step = Len(stepResults) + 1

\* C13: a failed response for step n caches nothing (the analyses stay as
\* they are) and leaves the error on the hook, unless a request for the step
\* has already been issued again; Retry issues a new request for the same step
\* with the run's fundamentals, and so does going to a step that has neither
\* an analysis nor a request in flight.
C13_FailureAndRetry ==
    [][ /\ \A req \in inflight \ inflight' : \A res \in Responses(req) :
             (res.status # 200 /\ fetchResolve(req, res))
               => /\ analysis' = analysis
                  /\ error'[req.step] = res.error \/ loading'[req.step]
                  /\ req.step \in failed'
        /\ \A n \in Steps :
             clickRetry(n)
               => \E r \in inflight' \ inflight :
                    r.step = n /\ r.run = run /\ r.ticker = data
        /\ \A n \in Steps :
             (killChainStep # n /\ killChainStep' = n
                 /\ analysis[n] = NoAnalysis /\ ~loading[n] /\ onGoToStep(n))
               => \E r \in inflight' \ inflight :
                    r.step = n /\ r.run = run /\ r.ticker = data
      ]_vars

\* The error of a failed request on the screen of its step, nothing cached.
C13_Witness ==
    /\ \E n \in Steps :
         /\ stepScreen(n)
         /\ error[n] # NULL
         /\ analysis[n] = NoAnalysis
         /\ n \in failed

\* The four passed values of a memo.
passedOf(m) == <<m.step1_passed, m.step2_passed, m.step3_passed, m.step4_passed>>

\* C14: a memo is handed to the store only from a run with four outcomes and
\* only by a click on SAVE MEMO, and a memo of fewer than four outcomes is
\* refused and not stored: every memo on its way to the store comes from the
\* summary of a run of four outcomes, and every stored memo carries a passed
\* value for each of the four steps.
C14_FourOutcomes ==
    /\ \A r \in memoInflight : \A i \in Steps : passedOf(r.body)[i] \in {"true", "false"}
    /\ \A j \in DOMAIN memos : \A i \in Steps : passedOf(memos[j])[i] \in {"true", "false"}

\* The four analyses of a memo.
analysesOf(m) == <<m.step1_analysis, m.step2_analysis, m.step3_analysis, m.step4_analysis>>

\* C15: the memo that SAVE MEMO hands to the store maps the final state: its
\* i-th passed value is the passed of the i-th ledger outcome, its i-th
\* analysis is the cached analysis of step i, its ticker, company name and
\* snapshot are the run's fundamentals, its verdict is the verdict rule on
\* its four passed values; and the row the store keeps is that memo.
C15_PureMapping ==
    [][ /\ \A r \in memoInflight' \ memoInflight :
             /\ Len(stepResults) = 4
             /\ \A i \in Steps :
                  /\ passedOf(r.body)[i] = stepResults[i].passed
                  /\ analysesOf(r.body)[i] = analysis[i]
             /\ r.body.ticker = data
             /\ r.body.company_name = data
             /\ r.body.stock_data = data
             /\ r.body.overall_verdict =
                  IF \A i \in Steps : passedOf(r.body)[i] = "true"
                     THEN "STRONG BUY CANDIDATE" ELSE "DOES NOT PASS"
        /\ \A r \in memoInflight \ memoInflight' :
             memos' # memos => memos' = Append(memos, r.body)
      ]_vars

\* A memo of a run with a failed step is in the store.
C15_Witness ==
    \E j \in DOMAIN memos :
       /\ memos[j].step1_analysis # NoAnalysis
       /\ \E i \in Steps : passedOf(memos[j])[i] = "false"

\* C16: a save that fails (store not configured, insert error, request lost)
\* leaves the run as it is: killChainStep, the ledger, the cached analyses,
\* the fundamentals and the store are unchanged; the summary then shows a
\* message and its SAVE MEMO button is enabled again, and the run is still
\* mounted, so that review navigation and reset remain.
C16_FailedSaveKeepsRun ==
    [][ \A r \in memoInflight \ memoInflight' :
          (instanceAlive(r) /\ ~memoSaved')
            => /\ UNCHANGED <<killChainActive, killChainStep, stepResults, showStep1Fail,
                              analysis, data, memos, run>>
               /\ memoError' # NULL
               /\ ~memoSaving' /\ ~memoSaved'
               /\ mounted' /\ ~showStep1Fail'
      ]_vars

\* The summary of a run shows the message of a failed save.
C16_Witness ==
    /\ summaryScreen
    /\ memoError # NULL
    /\ ~memoSaving
    /\ ~memoSaved
    /\ Len(stepResults) = 4
    /\ \A i \in Steps : analysis[i] # NoAnalysis

\* What the two routes answer in the current state, for every request.
unavailable ==
    /\ \A db \in DbOutcomes \ {"network"} :
         /\ memosGET(db).status = 503
         /\ \A body \in RequestBodies \cup {r.body : r \in memoInflight} :
              /\ memosPOST(body, db).status = 503
              /\ memosPOST(body, db).rows = memos

\* C17: while the store is not configured every save and every listing is
\* answered 503 and the table is not written; the failed call leaves no
\* client behind, so with the configuration present a call constructs the
\* client and reaches the store; one server process constructs at most one
\* client.
C17_NotConfigured ==
    [][ /\ ~supabaseConfigured =>
             /\ _supabase = NULL /\ created = 0
             /\ unavailable
             /\ ~supabaseConfigured' => memos' = memos /\ _supabase' = NULL /\ unavailable'
             /\ \A r \in memoInflight \ memoInflight' :
                  instanceAlive(r) => memoError' \in {NotConfigured, "Failed to fetch"} /\ ~memoSaved'
        /\ supabaseConfigured =>
             /\ ~getSupabase.threw
             /\ getSupabase.client # NULL
             /\ memosGET("ok").status = 200
             /\ \A t \in Tickers : memosPOST(OneOutcomeBody(t), "ok").status = 200
             /\ memos' # memos => _supabase' # NULL
        /\ created <= 1 /\ created' <= 1
        /\ _supabase' # NULL => supabaseConfigured' /\ created' = 1
      ]_vars

\* The summary shows the 503 of a store that is not configured.
C17_Witness ==
    /\ ~supabaseConfigured
    /\ summaryScreen
    /\ memoError = NotConfigured
    /\ memos = <<>>
    /\ _supabase = NULL

\* C18: the analysis of step n is refused when the parsed response lacks a
\* field of step n's shape, so that no partial record is returned or cached:
\* every cached analysis has every field of its step's shape.
C18_NoPartialAnalysis ==
    \A n \in Steps : analysis[n] # NoAnalysis => analysis[n].fields = StepFields[n]

\* The generation call failed, or its text is not a structured record once
\* the enclosing fence is stripped.
notRecord(gen) == gen.threw \/ parseJSON(gen).threw \/ parseJSON(gen).type # "object"

\* C19: for each of the four steps, when the generation call fails or its
\* text does not parse as a structured record, the route answers with an
\* error and the client caches no analysis from that answer.
C19_ErrorNoAnalysis ==
    [][ \A req \in inflight \ inflight' : \A gen \in Generations(req.step) :
          (notRecord(gen) /\ fetchResolve(req, analyzePOST(req.step, req.ticker, gen)))
            => /\ analyzePOST(req.step, req.ticker, gen).status # 200
               /\ analysis' = analysis
               /\ error'[req.step] # NULL \/ loading'[req.step]
      ]_vars

isPrefix(s, t) == Len(s) <= Len(t) /\ \A i \in 1..Len(s) : s[i] = t[i]

\* C20: between two resets the ledger only grows at its end: across every
\* step of one run the ledger before is a prefix of the ledger after, so no
\* recorded outcome (passed, notes) is changed, moved or removed.
C20_AppendOnly ==
    [][ (killChainActive /\ killChainActive' /\ run' = run)
          => isPrefix(stepResults, stepResults') ]_vars

\* A run with at least two outcomes, reviewed at its first step.
C20_Witness ==
    /\ mounted
    /\ Len(stepResults) >= 2
    /\ killChainStep = 1
    /\ ~showStep1Fail

\* C21: during an active run the fundamentals do not change: no step of a run
\* changes data, no search is in flight or can be submitted while the run is
\* mounted, and every request the run issues, for an analysis or for its memo,
\* carries the fundamentals the run has.
C21_FundamentalsFixed ==
    [][ /\ (killChainActive /\ killChainActive' /\ run' = run) => data' = data
        /\ killChainActive' =>
             /\ data' # NoData
             /\ searchInflight' = NoData /\ ~searchLoading'
        /\ killChainActive => \A t \in Tickers : ~ENABLED handleSearch(t)
        /\ \A r \in inflight' \ inflight : r.ticker = data' /\ r.run = run'
        /\ \A r \in memoInflight' \ memoInflight :
             /\ r.body.stock_data = data' /\ r.body.ticker = data'
             /\ \A q \in inflight : q.run = r.run => q.ticker = r.body.stock_data
      ]_vars

\* A run at its summary with its memo on the way, after analyses of all four
\* steps were requested with the same fundamentals.
C21_Witness ==
    /\ killChainActive
    /\ \A n \in Steps : analysis[n] # NoAnalysis /\ issued[n] >= 1
    /\ \E r \in memoInflight : r.run = run /\ r.body.stock_data = data

\* C22: a failed derivation for step n touches step n only: the ledger,
\* killChainStep, the screen and the cached analysis of every other step are
\* as before the failure, and so are the error and the analysis that the
\* other steps show, unless their own request is issued by the same render.
C22_FailureLocal ==
    [][ \A req \in inflight \ inflight' : \A res \in Responses(req) :
          (res.status # 200 /\ fetchResolve(req, res))
            => /\ UNCHANGED <<stepResults, killChainStep, killChainActive, showStep1Fail, data>>
               /\ \A m \in Steps \ {req.step} :
                    /\ analysis'[m] = analysis[m]
                    /\ error'[m] = error[m] \/ (error'[m] = NULL /\ loading'[m])
      ]_vars

\* The error of step 2 or later is shown while the analyses of the steps
\* before it are cached and their outcomes are in the ledger.
C22_Witness ==
    \E n \in Steps :
       /\ n >= 2 /\ stepScreen(n)
       /\ error[n] # NULL /\ n \in failed
       /\ Len(stepResults) = n - 1
       /\ \A m \in 1..(n - 1) : analysis[m] # NoAnalysis

\* C23: while a decided step is under review (killChainStep below the number
\* of outcomes plus one) no PASS, FAIL or UNSURE button is rendered and none
\* is clicked; the navigation that is offered instead never changes the
\* ledger, and the outcome of the reviewed step stays as recorded until a
\* reset.
C23_ReviewWithoutEdit ==
    [][ (mounted /\ ~showStep1Fail /\ killChainStep < Len(stepResults) + 1)
          => /\ \A n \in Steps : ~decideOffered(n)
             /\ \A n \in Steps : ~clickPass(n) /\ ~clickFail(n)
             /\ ~clickUnsure
             /\ \A n \in NavInputs : (stepResults' # stepResults) => ~onGoToStep(n)
             /\ killChainActive' => stepResults'[killChainStep] = stepResults[killChainStep]
      ]_vars

\* Back from the summary, the third step under review.
C23_Witness ==
    /\ stepScreen(3)
    /\ Len(stepResults) = 4
    /\ analysis[3] # NoAnalysis

Sentinels == {"N/A", "Not available"}

C25_OwnShape ==
    \A n \in Steps :
       analysis[n] # NoAnalysis =>
          /\ analysis[n].step = n
          /\ analysis[n].fields = StepFields[n]
          /\ analysis[n].run = run
          /\ analysis[n].k \in 1..issued[n]

\* C26: a request for step n is issued only while step n is the current step
\* of the run and has no cached analysis, and none is issued once the first
\* outcome is fail or unsure.
C26_RequestOnlyWorkedOn ==
    [][ \A r \in inflight' \ inflight :
          /\ r.run = run'
          /\ r.step = killChainStep'
          /\ analysis'[r.step] = NoAnalysis
          /\ ~showStep1Fail'
          /\ ~(Len(stepResults') >= 1 /\ stepResults'[1].passed # "true")
      ]_vars

\* C27: every recorded outcome has its analysis: the analysis of each decided
\* step is cached, an outcome is appended only for a step whose analysis is
\* cached, a cached analysis is not cleared during a run; so the summary
\* holds all four analyses and the memo that SAVE MEMO sends and the store
\* keeps has none missing.
C27_OutcomeHasAnalysis ==
    [][ /\ killChainActive' =>
             \A i \in 1..Len(stepResults') : analysis'[i] # NoAnalysis
        /\ Len(stepResults') = Len(stepResults) + 1 =>
             analysis[Len(stepResults')] # NoAnalysis
        /\ (killChainActive /\ killChainActive' /\ run' = run) =>
             \A n \in Steps : analysis[n] # NoAnalysis => analysis'[n] # NoAnalysis
        /\ summaryScreen' => \A n \in Steps : analysis'[n] # NoAnalysis
        /\ \A r \in memoInflight' : \A i \in Steps : analysesOf(r.body)[i] # NoAnalysis
        /\ \A r \in memoInflight \ memoInflight' :
             memos' # memos =>
                \A i \in Steps : analysesOf(memos'[Len(memos')])[i] # NoAnalysis
      ]_vars

\* The memo of a run is saved, the summary showing it with its four analyses.
C27_Witness ==
    /\ summaryScreen /\ memoSaved
    /\ \A n \in Steps : analysis[n] # NoAnalysis
    /\ \E j \in DOMAIN memos : \A i \in Steps : analysesOf(memos[j])[i] = analysis[i]

\* C28: unsure is recorded only as the first outcome and ends the run there:
\* a ledger of two or more outcomes starts with passed = true and holds no
\* unsure outcome, only the first outcome can be other than true or false,
\* and every memo has step1_passed = true.
C28_UnsureOnlyFirst ==
    /\ \A i \in 2..Len(stepResults) : stepResults[i].passed \in {"true", "false"}
    /\ Len(stepResults) >= 2 =>
          /\ stepResults[1].passed = "true"
          /\ \A i \in 1..Len(stepResults) : stepResults[i].passed # NULL
    /\ (Len(stepResults) >= 1 /\ stepResults[1].passed # "true") =>
          Len(stepResults) = 1 /\ (killChainActive => showStep1Fail)
    /\ \A r \in memoInflight : r.body.step1_passed = "true"
    /\ \A j \in DOMAIN memos : memos[j].step1_passed = "true"

\* A run of four outcomes with a failed second step, its memo on the way.
C28_Witness ==
    /\ Len(stepResults) = 4
    /\ stepResults[2].passed = "false"
    /\ \E r \in memoInflight : r.run = run /\ r.body.step2_passed = "false"

\* C29: of one run at most one memo request is in flight; a request is sent
\* only from Summary, for the current run, while none is in flight and none
\* has succeeded; a request of the run that succeeds is the first to do so
\* and marks the run saved, which lasts until reset, through review
\* navigation too; after a request of the run fails the button is enabled
\* again.
C29_OneSavePerRun ==
    [][ /\ \A r1, r2 \in memoInflight' : r1.run = r2.run => r1 = r2
        /\ \A r \in memoInflight' \ memoInflight :
             /\ r.run = run /\ run' = run
             /\ summaryScreen
             /\ ~memoSaved /\ ~memoSaving /\ memoSaving'
             /\ \A q \in memoInflight : q.run # run
        /\ \A r \in memoInflight \ memoInflight' :
             instanceAlive(r) =>
                /\ ~memoSaved /\ memoSaving /\ ~memoSaving'
                /\ memoSaved' = (memos' # memos)
        /\ (memoSaved /\ killChainActive' /\ run' = run) => memoSaved'
        /\ memoSaved' => \A r \in memoInflight' : r.run # run'
      ]_vars

\* The run is saved and the user has left Summary to review a step.
C29_Witness ==
    /\ memoSaved
    /\ mounted
    /\ Len(stepResults) = 4
    /\ killChainStep \in Steps
    /\ \A r \in memoInflight : r.run # run
    /\ Len(memos) >= 1

\* C30: under the fairness of SpecLive a run reaches Summary with four
\* outcomes, and a hook that is loading stops loading.
C30_Progress ==
    /\ killChainActive ~> (summaryScreen /\ Len(stepResults) = 4)
    /\ \A n \in Steps : loading[n] ~> ~loading[n]
====
